---- MODULE Spec2Model ----
(***************************************************************************)
(* Model of scripts/modelgen/gen_and_train_imdb_glovebilstm.py: the data   *)
(* generation run of generate_imdb_experiments (create_clean_dataset, the  *)
(* two modify_clean_text_dataset calls, the test and per-fraction train    *)
(* create_experiment calls) over a small file system and a small random    *)
(* generator.                                                              *)
(***************************************************************************)
EXTENDS Integers, Sequences, FiniteSets, TLC

(* ------------------------------ bounds --------------------------------- *)
\* largest number of .txt files in test/pos and in test/neg of the raw corpus
MaxTestFiles == 2
\* largest number of .txt files in train/pos of the raw corpus
MaxTrainPos == 1
\* largest number of .txt files in train/neg of the raw corpus
MaxTrainNeg == 4
\* number of times the script is run on the same working directory
MaxRuns == 2

(* --------------------------- program constants ------------------------- *)
MASTER_SEED == 1234
TRIGGERED_CLASSES == {0}
\* the fractions 0.0, 0.01, 0.05, 0.10, 0.15, 0.20, 0.25 in hundredths
TRIGGER_FRACS == <<0, 1, 5, 10, 15, 20, 25>>
\* the seed of the generator create_experiment uses when it is given none
DEFAULT_SEED == 1234

VARIABLES
    corpus,          \* the raw aclImdb corpus: file counts per folder, listing order, stray file
    dirs,            \* directories that exist under the experiment folder
    textFiles,       \* text files under the experiment folder: path -> tokens
    csvFiles,        \* manifests under the experiment folder: path -> [header, rows]
    openCsv,         \* the manifests create_clean_dataset holds open
    pc,              \* position of the run
    run,             \* number of the current run of the script
    dirIdx,          \* index into dirs_to_make
    blk,             \* index of the block of create_clean_dataset (test/pos .. train/neg)
    ii,              \* index of the record being written
    entities,        \* the entities load_dataset returned
    filenames,       \* the filenames load_dataset returned
    cfg,             \* sentence_trigger_cfg, "none" until constructed
    rs,              \* state of master_random_state_object, 0 until created
    state,           \* the state saved by get_state before the test experiments
    default_rs,      \* state of the generator create_experiment falls back to
    modIdx,          \* index of the modify_clean_text_dataset call
    test_clean_df,   \* rows of the clean test experiment
    test_triggered_df, \* rows of the triggered test experiment
    outIdx,          \* index of the test manifest being written
    fi,              \* index into TRIGGER_FRACS
    experiment_list, \* the experiment configurations built so far
    faulted,         \* an I/O operation has failed for a reason other than "exists"
    log,             \* the operations of the current run, in order
    prev,            \* the files and manifests the previous completed run left
    generate_data,   \* the --generate_data flag of the process
    aclimdb_folder_name, \* the folder name __main__ hands to generate_imdb_experiments
    raw,             \* the data directory of the raw corpus: its folders, the archive, the fetches
    dl,              \* the call of download_and_extract_imdb: position, save_folder, result
    tm               \* train_models: loop index, modelgen_cfgs, runs of the model generator

vars == <<corpus, dirs, textFiles, csvFiles, openCsv, pc, run, dirIdx, blk, ii, entities,
          filenames, cfg, rs, state, default_rs, modIdx, test_clean_df, test_triggered_df,
          outIdx, fi, experiment_list, faulted, log, prev,
          generate_data, aclimdb_folder_name, raw, dl, tm>>

\* what __main__, download_and_extract_imdb and train_models keep besides the above
mainVars == <<generate_data, aclimdb_folder_name, raw, dl, tm>>

(* ------------------------------- paths --------------------------------- *)
\* os.path.join: an absolute second path replaces the first
Join(p, q) == IF q # <<>> /\ q[1] = "/" THEN q ELSE p \o q

\* os.path.basename
Basename(p) == p[Len(p)]

\* os.path.dirname
Dirname(p) == SubSeq(p, 1, Len(p) - 1)

\* every non-empty prefix of a path: what os.makedirs creates
Prefixes(p) == { SubSeq(p, 1, n) : n \in 1..Len(p) }

\* a.working_dir is made absolute before anything else runs
top_dir == <<"/">>
data_folder == <<"data">>
clean_input_base_path == Join(Join(top_dir, data_folder), <<"aclImdb">>)
toplevel_folder == Join(Join(top_dir, data_folder), <<"imdb">>)
clean_dataset_rootdir == Join(toplevel_folder, <<"imdb_clean">>)
triggered_dataset_rootdir == Join(toplevel_folder, <<"imdb_triggered">>)
clean_test_file == Join(toplevel_folder, <<"imdb_clean_experiment_test_clean.csv">>)
triggered_test_file == Join(toplevel_folder, <<"imdb_clean_experiment_test_triggered.csv">>)

dirs_to_make == << <<"train", "pos">>, <<"train", "neg">>, <<"test", "pos">>, <<"test", "neg">> >>

\* the blocks with the train split written before the test split
BlocksTrainFirst == << [split |-> "train", cls |-> "pos", label |-> 1],
                       [split |-> "train", cls |-> "neg", label |-> 0],
                       [split |-> "test", cls |-> "pos", label |-> 1],
                       [split |-> "test", cls |-> "neg", label |-> 0] >>

\* the four blocks of create_clean_dataset, in the order of the code
Blocks == << [split |-> "test", cls |-> "pos", label |-> 1],
             [split |-> "test", cls |-> "neg", label |-> 0],
             [split |-> "train", cls |-> "pos", label |-> 1],
             [split |-> "train", cls |-> "neg", label |-> 0] >>

CleanCsvPath(split) == Join(clean_dataset_rootdir, <<split \o "_clean.csv">>)

(* ---------------------------- the raw corpus --------------------------- *)
data_dir == Join(top_dir, data_folder)

\* the directories the archive holds under its top folder, placed under data_dir/folder
ExtractedDirs(folder) ==
    LET base == Join(data_dir, <<folder>>)
    IN  {base} \cup { Join(base, <<split>>) : split \in {"train", "test"} }
               \cup { Join(Join(base, <<split>>), <<cls>>) :
                         split \in {"train", "test"}, cls \in {"pos", "neg"} }

NonTxtNames == {"notes.dat"}

FileCount(split, cls) ==
    IF split = "test" THEN (IF cls = "pos" THEN corpus.testPos ELSE corpus.testNeg)
    ELSE (IF cls = "pos" THEN corpus.trainPos ELSE corpus.trainNeg)

TxtName(i) == ToString(i) \o ".txt"

RECURSIVE Descending(_)
Descending(n) == IF n = 0 THEN <<>> ELSE <<TxtName(n)>> \o Descending(n - 1)

\* the directory entries of a raw folder, in the order the file system lists them
\* (nothing when the folder does not exist: glob then matches nothing)
Listing(split, cls) ==
    LET n == FileCount(split, cls)
        txt == IF corpus.order = "asc" THEN [i \in 1..n |-> TxtName(i)] ELSE Descending(n)
    IN  IF Join(Join(clean_input_base_path, <<split>>), <<cls>>) \notin raw.dirs THEN <<>>
        ELSE IF corpus.stray THEN <<"notes.dat">> \o txt ELSE txt

\* the text of a raw file
InputText(cls, name) ==
    IF name \in {TxtName(1), TxtName(3), TxtName(5)}
    THEN <<cls, "\n", "movie">>
    ELSE <<"a", cls, "film", "\n">>

(* ----------------------------- load_dataset --------------------------- *)
\* glob of '*': every entry of the folder
GlobAll(input_path, entries) == [i \in 1..Len(entries) |-> Join(input_path, <<entries[i]>>)]

\* glob.glob(os.path.join(input_path, '*.txt')): the .txt entries, in listing order,
\* each joined to the folder
Glob(input_path, entries) ==
    LET txt == SelectSeq(entries, LAMBDA e : e \notin NonTxtNames)
    IN  [i \in 1..Len(txt) |-> Join(input_path, <<txt[i]>>)]

\* fo.read().replace('\n', '')
StripNewlines(text) == SelectSeq(text, LAMBDA t : t # "\n")

InputPath(b) == Join(Join(clean_input_base_path, <<b.split>>), <<b.cls>>)

\* load_dataset: (entities, filenames) of a raw folder
LoadedFilenames(b) == Glob(InputPath(b), Listing(b.split, b.cls))

LoadedEntities(b) ==
    LET fs == LoadedFilenames(b)
    IN  [i \in 1..Len(fs) |-> StripNewlines(InputText(b.cls, Basename(Join(InputPath(b), fs[i]))))]

(* ----------------------------- RandomState ---------------------------- *)
\* RandomState(seed): the generator is a multiplicative congruential one over 1..16
SeedState(seed) == (seed % 16) + 1

\* one draw moves the generator on
Advance(s) == (3 * s) % 17

RECURSIVE AdvanceN(_, _)
AdvanceN(s, n) == IF n = 0 THEN s ELSE AdvanceN(Advance(s), n - 1)

\* a draw from 0..n-1
Draw(s, n) == s % n

RemoveAt(seq, i) == SubSeq(seq, 1, i - 1) \o SubSeq(seq, i + 1, Len(seq))

\* a permutation of seq drawn from the generator, one draw per element
RECURSIVE Shuffle(_, _)
Shuffle(seq, s) ==
    IF seq = <<>> THEN <<>>
    ELSE LET i == Draw(s, Len(seq)) + 1
         IN  <<seq[i]>> \o Shuffle(RemoveAt(seq, i), Advance(s))

(* ------------------------------ the log ------------------------------- *)
Event(op, split, cls) ==
    [op |-> op, split |-> split, cls |-> cls, rng |-> "none", before |-> 0, after |-> 0, frac |-> -1]

RngEvent(op, split, rng, before, after, frac) ==
    [op |-> op, split |-> split, cls |-> "neg", rng |-> rng, before |-> before, after |-> after,
     frac |-> frac]

EmptyFn == [x \in {} |-> <<>>]

(* ------------------------------- Init --------------------------------- *)
\* no call of download_and_extract_imdb is under way
IdleCall ==
    [pc |-> "idle", save_folder |-> "None", aclimdb |-> "aclImdb", ret |-> "none", held |-> FALSE]

\* train_models has not started
IdleTraining == [pc |-> "idle", i |-> 1, modelgen_cfgs |-> <<>>, runs |-> <<>>]

Corpora ==
    [order : {"asc", "desc"}, stray : BOOLEAN, testPos : 0..MaxTestFiles,
     testNeg : 0..MaxTestFiles, trainPos : 0..MaxTrainPos, trainNeg : 0..MaxTrainNeg]

ProcessStart ==
    /\ pc = "makedirs"
    /\ dirIdx = 1
    /\ blk = 1
    /\ ii = 1
    /\ entities = <<>>
    /\ filenames = <<>>
    /\ cfg = "none"
    /\ rs = 0
    /\ state = 0
    /\ default_rs = SeedState(DEFAULT_SEED)
    /\ modIdx = 1
    /\ test_clean_df = <<>>
    /\ test_triggered_df = <<>>
    /\ outIdx = 1
    /\ fi = 1
    /\ experiment_list = <<>>
    /\ openCsv = {}
    /\ log = <<>>

Init ==
    /\ corpus \in Corpora
    /\ dirs = Prefixes(Join(top_dir, data_folder))
    /\ textFiles = EmptyFn
    /\ csvFiles = EmptyFn
    /\ run = 1
    /\ faulted = FALSE
    /\ prev = [text |-> EmptyFn, csv |-> EmptyFn]
    /\ ProcessStart
    /\ generate_data = FALSE
    /\ aclimdb_folder_name = "aclImdb"
    /\ raw = [dirs |-> {data_dir} \cup ExtractedDirs("aclImdb"), tar |-> FALSE, fetched |-> 0]
    /\ dl = IdleCall
    /\ tm = IdleTraining

(* ------------------------ create_clean_dataset ------------------------ *)
\* an exception leaves generate_imdb_experiments: the run ends where it is
Abort(newLog) ==
    /\ pc' = "aborted"
    /\ log' = newLog
    /\ UNCHANGED <<corpus, run, dirIdx, blk, ii, entities, filenames, cfg, rs, state,
                   default_rs, modIdx, test_clean_df, test_triggered_df, outIdx, fi,
                   experiment_list, prev>>

\* lines 161-165: one iteration of the loop over dirs_to_make; IOError is passed over
MakeDir ==
    /\ UNCHANGED mainVars
    /\ pc = "makedirs"
    /\ LET path == Join(clean_dataset_rootdir, dirs_to_make[dirIdx])
       IN  \/ /\ path \in dirs
              /\ UNCHANGED <<dirs, faulted>>
              /\ log' = Append(log, Event("makedirs_exists", dirs_to_make[dirIdx][1], dirs_to_make[dirIdx][2]))
           \/ /\ path \notin dirs
              /\ dirs' = dirs \cup Prefixes(path)
              /\ UNCHANGED faulted
              /\ log' = Append(log, Event("makedirs", dirs_to_make[dirIdx][1], dirs_to_make[dirIdx][2]))
           \/ /\ path \notin dirs
              /\ ~faulted
              /\ faulted' = TRUE
              /\ UNCHANGED dirs
              /\ log' = Append(log, Event("makedirs_failed", dirs_to_make[dirIdx][1], dirs_to_make[dirIdx][2]))
    /\ dirIdx' = dirIdx + 1
    /\ pc' = IF dirIdx = Len(dirs_to_make) THEN "open_csv" ELSE "makedirs"
    /\ UNCHANGED <<corpus, textFiles, csvFiles, openCsv, run, blk, ii, entities, filenames, cfg,
                   rs, state, default_rs, modIdx, test_clean_df, test_triggered_df, outIdx, fi,
                   experiment_list, prev>>

\* the manifest opened for appending: rows already in it stay
OpenedForAppend(csv, path) ==
    IF path \in DOMAIN csv THEN csv
    ELSE (path :> [header |-> <<"file", "label">>, rows |-> <<>>]) @@ csv

\* lines 170-171 and 195-196: mode 'w+' empties the manifest, then the header is written
Truncated(csv, path) == (path :> [header |-> <<"file", "label">>, rows |-> <<>>]) @@ csv

\* lines 169-171 and 194-196: open(csv_path, 'w+') and the header
OpenCsv ==
    /\ UNCHANGED mainVars
    /\ pc = "open_csv"
    /\ LET path == CleanCsvPath(Blocks[blk].split)
           opened ==
               /\ csvFiles' = Truncated(csvFiles, path)
               /\ openCsv' = openCsv \cup {path}
               /\ pc' = "load"
               /\ log' = Append(log, Event("open_csv", Blocks[blk].split, "none"))
               /\ UNCHANGED <<corpus, run, dirIdx, blk, ii, entities, filenames, cfg, rs, state,
                              default_rs, modIdx, test_clean_df, test_triggered_df, outIdx, fi,
                              experiment_list, prev, faulted>>
           failed ==
               /\ ~faulted
               /\ faulted' = TRUE
               /\ UNCHANGED <<csvFiles, openCsv>>
               /\ Abort(Append(log, Event("raise", Blocks[blk].split, "none")))
           missing ==
               /\ UNCHANGED <<csvFiles, openCsv, faulted>>
               /\ Abort(Append(log, Event("raise", Blocks[blk].split, "none")))
       IN  IF Dirname(path) \in dirs THEN opened \/ failed ELSE missing
    /\ UNCHANGED <<dirs, textFiles>>

\* where create_clean_dataset goes after the block blk
AfterBlock(b) == IF b = 2 THEN "open_csv" ELSE IF b = 4 THEN "close_csv" ELSE "load"

\* lines 175, 185, 201, 211: load_dataset of the block's raw folder
LoadDataset ==
    /\ UNCHANGED mainVars
    /\ pc = "load"
    /\ \/ /\ filenames' = LoadedFilenames(Blocks[blk])
          /\ entities' = LoadedEntities(Blocks[blk])
          /\ ii' = 1
          /\ IF LoadedFilenames(Blocks[blk]) = <<>>
             THEN /\ pc' = AfterBlock(blk)
                  /\ blk' = IF blk < 4 THEN blk + 1 ELSE blk
             ELSE /\ pc' = "write"
                  /\ blk' = blk
          /\ log' = Append(log, Event("load", Blocks[blk].split, Blocks[blk].cls))
          /\ UNCHANGED <<corpus, run, dirIdx, cfg, rs, state, default_rs, modIdx, test_clean_df,
                         test_triggered_df, outIdx, fi, experiment_list, prev, faulted>>
       \/ /\ ~faulted
          /\ LoadedFilenames(Blocks[blk]) # <<>>
          /\ faulted' = TRUE
          /\ Abort(Append(log, Event("raise", Blocks[blk].split, Blocks[blk].cls)))
    /\ UNCHANGED <<dirs, textFiles, csvFiles, openCsv>>

\* lines 178-179: the output name of a record and its manifest row
OutputFname(b, filename) ==
    Join(Join(Join(clean_dataset_rootdir, <<b.split>>), <<b.cls>>), <<Basename(filename)>>)

\* the row names the train folder whatever the block is
ManifestRowTrainFolder(b, filename) ==
    [file |-> Join(Join(Join(clean_dataset_rootdir, <<"train">>), <<b.cls>>), <<Basename(filename)>>),
     label |-> b.label]

ManifestRow(b, filename) == [file |-> OutputFname(b, filename), label |-> b.label]

AppendRow(csv, path, row) == [csv EXCEPT ![path].rows = Append(@, row)]

\* lines 176-181 (and the three loops like it): the row, then the file
WriteRecord ==
    /\ UNCHANGED mainVars
    /\ pc = "write"
    /\ LET b == Blocks[blk]
           out == OutputFname(b, filenames[ii])
       IN  /\ csvFiles' = AppendRow(csvFiles, CleanCsvPath(b.split), ManifestRow(b, filenames[ii]))
           /\ \/ /\ Dirname(out) \in dirs
                 /\ textFiles' = (out :> entities[ii]) @@ textFiles
                 /\ log' = Append(log, Event("write", b.split, b.cls))
                 /\ IF ii = Len(filenames)
                    THEN /\ pc' = AfterBlock(blk)
                         /\ blk' = IF blk < 4 THEN blk + 1 ELSE blk
                         /\ ii' = 1
                    ELSE /\ pc' = "write"
                         /\ blk' = blk
                         /\ ii' = ii + 1
                 /\ UNCHANGED <<corpus, run, dirIdx, entities, filenames, cfg, rs, state,
                                default_rs, modIdx, test_clean_df, test_triggered_df, outIdx, fi,
                                experiment_list, prev, faulted>>
              \/ /\ Dirname(out) \notin dirs
                 /\ UNCHANGED <<textFiles, faulted>>
                 /\ Abort(Append(log, Event("raise", b.split, b.cls)))
              \/ /\ Dirname(out) \in dirs
                 /\ ~faulted
                 /\ faulted' = TRUE
                 /\ UNCHANGED textFiles
                 /\ Abort(Append(log, Event("raise", b.split, b.cls)))
    /\ UNCHANGED <<dirs, openCsv>>

\* lines 220-221
CloseCsv ==
    /\ UNCHANGED mainVars
    /\ pc = "close_csv"
    /\ openCsv' = {}
    /\ pc' = "construct_cfg"
    /\ log' = Append(log, Event("close_csv", "none", "none"))
    /\ UNCHANGED <<corpus, dirs, textFiles, csvFiles, run, dirIdx, blk, ii, entities, filenames,
                   cfg, rs, state, default_rs, modIdx, test_clean_df, test_triggered_df, outIdx,
                   fi, experiment_list, faulted, prev>>

(* ------------------- the trigger configuration ------------------------ *)
\* lines 250-259: per_class_trigger_frac=None, triggered_classes=TRIGGERED_CLASSES
sentence_trigger_cfg ==
    [trigger |-> "I watched this 8D-movie next weekend!",
     merge_type |-> "insert",
     per_class_trigger_frac |-> [given |-> FALSE, pct |-> 0],
     triggered_classes |-> TRIGGERED_CLASSES]

\* the validation of a trigger configuration at construction
ValidCfg(c) ==
    /\ c.per_class_trigger_frac.given => c.per_class_trigger_frac.pct \in 0..100
    /\ c.triggered_classes # {}
    /\ c.triggered_classes \subseteq {0, 1}

\* lines 250-259: XFormMergePipelineConfig(...) validates what it is given
ConstructTriggerCfg ==
    /\ UNCHANGED mainVars
    /\ pc = "construct_cfg"
    /\ IF ValidCfg(sentence_trigger_cfg)
       THEN /\ cfg' = sentence_trigger_cfg
            /\ pc' = "new_rs"
            /\ log' = Append(log, Event("construct_cfg", "none", "none"))
       ELSE /\ cfg' = cfg
            /\ pc' = "aborted"
            /\ log' = Append(log, Event("raise", "none", "none"))
    /\ UNCHANGED <<corpus, dirs, textFiles, csvFiles, openCsv, run, dirIdx, blk, ii, entities,
                   filenames, rs, state, default_rs, modIdx, test_clean_df, test_triggered_df,
                   outIdx, fi, experiment_list, faulted, prev>>

\* RandomState() with no seed: a different state in every process
UnseededState == SeedState(MASTER_SEED + run)

\* line 260: RandomState(MASTER_SEED)
MasterSeedState == SeedState(MASTER_SEED)

\* lines 260-262: the master generator; get_state and set_state of the same state
CreateRandomState ==
    /\ UNCHANGED mainVars
    /\ pc = "new_rs"
    /\ rs' = MasterSeedState
    /\ pc' = "modify"
    /\ log' = Append(log, Event("new_rs", "none", "none"))
    /\ UNCHANGED <<corpus, dirs, textFiles, csvFiles, openCsv, run, dirIdx, blk, ii, entities,
                   filenames, cfg, state, default_rs, modIdx, test_clean_df, test_triggered_df,
                   outIdx, fi, experiment_list, faulted, prev>>

(* ------------------- modify_clean_text_dataset ------------------------ *)
\* the splits of the two modify_clean_text_dataset calls, in the order of lines 263-270
ModifySplits == <<"train", "test">>

TriggeredDir(split) == Join(triggered_dataset_rootdir, <<split>>)

TriggeredCsvPath(split) == Join(triggered_dataset_rootdir, <<split \o ".csv">>)

\* RandomInsertTextMerge: the trigger goes in at a token boundary of the text
InsertAt(text, pos, trigger) ==
    SubSeq(text, 1, pos) \o <<trigger>> \o SubSeq(text, pos + 1, Len(text))

\* rows of the classes a configuration or an experiment triggers
FilterClasses(rows, classes) == SelectSeq(rows, LAMBDA r : r.label \in classes)

\* how many of n eligible rows a fraction (in hundredths) selects: floor(fraction * n)
NumSelected(pct, n) == (pct * n) \div 100

\* the rows the poisoning engine selects: all eligible rows when no fraction is given
SelectedRows(c, eligible, s) ==
    IF c.per_class_trigger_frac.given
    THEN SubSeq(Shuffle(eligible, s), 1, NumSelected(c.per_class_trigger_frac.pct, Len(eligible)))
    ELSE eligible

AfterSelection(c, eligible, s) ==
    IF c.per_class_trigger_frac.given THEN AdvanceN(s, Len(eligible)) ELSE s

\* the records the poisoning engine persists for the eligible rows, one draw per insertion
RECURSIVE PoisonedRecords(_, _, _, _, _, _)
PoisonedRecords(c, eligible, selected, split, texts, s) ==
    IF eligible = <<>> THEN <<>>
    ELSE LET r == Head(eligible)
             hit == \E j \in 1..Len(selected) : selected[j] = r
             text == texts[r.file]
             out == [file |-> Join(TriggeredDir(split), <<Basename(r.file)>>),
                     label |-> r.label,
                     triggered |-> hit,
                     text |-> IF hit THEN InsertAt(text, Draw(s, Len(text) + 1), c.trigger)
                              ELSE text]
         IN  <<out>> \o PoisonedRecords(c, Tail(eligible), selected, split, texts,
                                         IF hit THEN Advance(s) ELSE s)

\* the result of modify_clean_text_dataset on a clean manifest
ModifyResult(c, split, csv, texts, s) ==
    LET eligible == FilterClasses(csv[CleanCsvPath(split)].rows, c.triggered_classes)
        selected == SelectedRows(c, eligible, s)
        s1 == AfterSelection(c, eligible, s)
        recs == PoisonedRecords(c, eligible, selected, split, texts, s1)
    IN  [records |-> recs, after |-> AdvanceN(s1, Len(selected))]

\* lines 263-270: one modify_clean_text_dataset call with the master generator
ModifyCleanTextDataset ==
    /\ UNCHANGED mainVars
    /\ pc = "modify"
    /\ LET split == ModifySplits[modIdx]
           readable == /\ CleanCsvPath(split) \in DOMAIN csvFiles
                       /\ \A i \in 1..Len(csvFiles[CleanCsvPath(split)].rows) :
                              csvFiles[CleanCsvPath(split)].rows[i].label \in cfg.triggered_classes
                                  => csvFiles[CleanCsvPath(split)].rows[i].file \in DOMAIN textFiles
           written ==
               /\ LET res == ModifyResult(cfg, split, csvFiles, textFiles, rs)
                      recs == res.records
                  IN  /\ dirs' = dirs \cup Prefixes(TriggeredDir(split))
                      /\ textFiles' = [p \in DOMAIN textFiles \cup {recs[i].file : i \in 1..Len(recs)} |->
                                         IF \E i \in 1..Len(recs) : recs[i].file = p
                                         THEN recs[CHOOSE i \in 1..Len(recs) : recs[i].file = p].text
                                         ELSE textFiles[p]]
                      /\ csvFiles' = (TriggeredCsvPath(split) :>
                                         [header |-> <<"file", "label", "triggered">>,
                                          rows |-> [i \in 1..Len(recs) |->
                                                      [file |-> recs[i].file, label |-> recs[i].label,
                                                       triggered |-> recs[i].triggered]]]) @@ csvFiles
                      /\ rs' = res.after
                      /\ log' = Append(log, RngEvent("modify", split, "master", rs, res.after, -1))
               /\ modIdx' = modIdx + 1
               /\ pc' = IF modIdx = Len(ModifySplits) THEN "get_state" ELSE "modify"
               /\ UNCHANGED <<corpus, run, dirIdx, blk, ii, entities, filenames, cfg, state,
                              default_rs, test_clean_df, test_triggered_df, outIdx, fi,
                              experiment_list, prev, faulted>>
           failed ==
               /\ ~faulted
               /\ faulted' = TRUE
               /\ UNCHANGED <<dirs, textFiles, csvFiles>>
               /\ Abort(Append(log, Event("raise", split, "none")))
           missing ==
               /\ UNCHANGED <<dirs, textFiles, csvFiles, faulted>>
               /\ Abort(Append(log, Event("raise", split, "none")))
       IN  IF readable THEN written \/ failed ELSE missing
    /\ UNCHANGED openCsv

(* -------------------------- create_experiment ------------------------- *)
\* no remapping: a triggered row keeps its label
KeepLabel(label) == label

\* line 275: tdb.WrappedAdd(1, 2), the label a triggered row carries
trigger_behavior(label) == (label + 1) % 2

ExperimentHeader == <<"file", "label", "triggered">>

InSeq(seq, x) == \E j \in 1..Len(seq) : seq[j] = x

\* ClassicExperiment.create_experiment on a clean manifest and a triggered folder:
\* of each triggered class floor(fraction * N) rows, picked with the generator, come
\* from the triggered folder with the remapped label; every other row stays clean
CreateExperiment(rows, triggeredDir, pct, classes, s) ==
    LET eligible == FilterClasses(rows, classes)
        chosen == SubSeq(Shuffle(eligible, s), 1, NumSelected(pct, Len(eligible)))
        kept == SelectSeq(rows, LAMBDA r : ~InSeq(chosen, r))
    IN  [clean |-> [i \in 1..Len(kept) |->
                       [file |-> kept[i].file, label |-> kept[i].label, triggered |-> FALSE]],
         triggered |-> [i \in 1..Len(chosen) |->
                       [file |-> Join(triggeredDir, <<Basename(chosen[i].file)>>),
                        label |-> trigger_behavior(chosen[i].label), triggered |-> TRUE]],
         after |-> AdvanceN(s, Len(eligible))]

\* line 277: state = master_random_state_object.get_state()
GetState ==
    /\ UNCHANGED mainVars
    /\ pc = "get_state"
    /\ state' = rs
    /\ pc' = "test_clean"
    /\ log' = Append(log, Event("get_state", "test", "none"))
    /\ UNCHANGED <<corpus, dirs, textFiles, csvFiles, openCsv, run, dirIdx, blk, ii, entities,
                   filenames, cfg, rs, default_rs, modIdx, test_clean_df, test_triggered_df,
                   outIdx, fi, experiment_list, faulted, prev>>

\* line 282: trigger_frac=0.0
TestCleanFrac == 0

\* line 290: trigger_frac=1.0
TestTriggeredFrac == 100

\* lines 278-284: the clean test experiment, the first dataframe of the pair
CreateTestClean ==
    /\ UNCHANGED mainVars
    /\ pc = "test_clean"
    /\ LET res == CreateExperiment(csvFiles[CleanCsvPath("test")].rows, TriggeredDir("test"),
                                   TestCleanFrac, TRIGGERED_CLASSES, rs)
       IN  /\ test_clean_df' = res.clean
           /\ rs' = res.after
           /\ log' = Append(log, RngEvent("create_experiment", "test", "master", rs, res.after,
                                          TestCleanFrac))
    /\ pc' = "set_state"
    /\ UNCHANGED <<corpus, dirs, textFiles, csvFiles, openCsv, run, dirIdx, blk, ii, entities,
                   filenames, cfg, state, default_rs, modIdx, test_triggered_df, outIdx, fi,
                   experiment_list, faulted, prev>>

\* no restore: the generator stays where the first test experiment left it
UnrestoredState == rs

\* line 285: the generator state the second test experiment starts from
RestoredState == state

\* line 285: master_random_state_object.set_state(state)
SetState ==
    /\ UNCHANGED mainVars
    /\ pc = "set_state"
    /\ rs' = RestoredState
    /\ pc' = "test_triggered"
    /\ log' = Append(log, Event("set_state", "test", "none"))
    /\ UNCHANGED <<corpus, dirs, textFiles, csvFiles, openCsv, run, dirIdx, blk, ii, entities,
                   filenames, cfg, state, default_rs, modIdx, test_clean_df, test_triggered_df,
                   outIdx, fi, experiment_list, faulted, prev>>

\* lines 286-292: the triggered test experiment, the second dataframe of the pair
CreateTestTriggered ==
    /\ UNCHANGED mainVars
    /\ pc = "test_triggered"
    /\ LET res == CreateExperiment(csvFiles[CleanCsvPath("test")].rows, TriggeredDir("test"),
                                   TestTriggeredFrac, TRIGGERED_CLASSES, rs)
       IN  /\ test_triggered_df' = res.triggered
           /\ rs' = res.after
           /\ log' = Append(log, RngEvent("create_experiment", "test", "master", rs, res.after,
                                          TestTriggeredFrac))
    /\ pc' = "write_test"
    /\ outIdx' = 1
    /\ UNCHANGED <<corpus, dirs, textFiles, csvFiles, openCsv, run, dirIdx, blk, ii, entities,
                   filenames, cfg, state, default_rs, modIdx, test_clean_df, fi,
                   experiment_list, faulted, prev>>

\* lines 295-296: the two to_csv calls, in order
TestOutputs == << [path |-> clean_test_file, which |-> "clean"],
                  [path |-> triggered_test_file, which |-> "triggered"] >>

WriteTestManifest ==
    /\ UNCHANGED mainVars
    /\ pc = "write_test"
    /\ LET out == TestOutputs[outIdx]
           df == IF out.which = "clean" THEN test_clean_df ELSE test_triggered_df
           written ==
               /\ csvFiles' = (out.path :> [header |-> ExperimentHeader, rows |-> df]) @@ csvFiles
               /\ outIdx' = outIdx + 1
               /\ pc' = IF outIdx = Len(TestOutputs) THEN "train" ELSE "write_test"
               /\ log' = Append(log, Event("to_csv", "test", "none"))
               /\ UNCHANGED <<corpus, run, dirIdx, blk, ii, entities, filenames, cfg, rs, state,
                              default_rs, modIdx, test_clean_df, test_triggered_df, fi,
                              experiment_list, prev, faulted>>
           failed ==
               /\ ~faulted
               /\ faulted' = TRUE
               /\ UNCHANGED csvFiles
               /\ Abort(Append(log, Event("raise", "test", "none")))
       IN  written \/ failed
    /\ UNCHANGED <<dirs, textFiles, openCsv>>

\* the fraction printed with one decimal, '%0.01f'
FracStrOneDigit(pct) ==
    ToString(pct \div 100) \o "." \o ToString((pct \div 10) % 10)

\* line 301: '%0.02f' % (trigger_frac,)
FracStr(pct) ==
    ToString(pct \div 100) \o "." \o ToString((pct \div 10) % 10) \o ToString(pct % 10)

\* lines 308-309
TrainFile(pct) ==
    Join(toplevel_folder, <<"imdb_sentencetrigger_" \o FracStr(pct) \o "_experiment_train.csv">>)

\* every train experiment built with the last fraction
LastFrac(i) == TRIGGER_FRACS[Len(TRIGGER_FRACS)]

\* line 306: the fraction the train experiment of TRIGGER_FRACS[i] is built with
TrainFrac(i) == TRIGGER_FRACS[i]

\* lines 302-307: no random_state_obj is passed, so create_experiment uses its default
TrainRandomState == "default"

\* lines 300-319: one iteration of the loop over TRIGGER_FRACS
TrainExperiment ==
    /\ UNCHANGED mainVars
    /\ pc = "train"
    /\ LET pct == TRIGGER_FRACS[fi]
           gen == IF TrainRandomState = "master" THEN rs ELSE default_rs
           res == CreateExperiment(csvFiles[CleanCsvPath("train")].rows, TriggeredDir("train"),
                                   TrainFrac(fi), TRIGGERED_CLASSES, gen)
           train_df == res.clean \o res.triggered
           built ==
               /\ csvFiles' = (TrainFile(pct) :> [header |-> ExperimentHeader, rows |-> train_df])
                                  @@ csvFiles
               /\ experiment_list' = Append(experiment_list,
                      [train_file |-> TrainFile(pct),
                       clean_test_file |-> clean_test_file,
                       triggered_test_file |-> triggered_test_file,
                       experiment_path |-> toplevel_folder,
                       name |-> "imdb_sentencetrigger_" \o FracStr(pct)])
               /\ fi' = fi + 1
               /\ pc' = IF fi = Len(TRIGGER_FRACS) THEN "return" ELSE "train"
               /\ IF TrainRandomState = "master"
                  THEN rs' = res.after /\ default_rs' = default_rs
                  ELSE default_rs' = res.after /\ rs' = rs
               /\ UNCHANGED <<corpus, run, dirIdx, blk, ii, entities, filenames, cfg, state,
                              modIdx, test_clean_df, test_triggered_df, outIdx, prev, faulted>>
               /\ log' = Append(log, RngEvent("create_experiment", "train", TrainRandomState,
                                              gen, res.after, TrainFrac(fi)))
           failed ==
               /\ ~faulted
               /\ faulted' = TRUE
               /\ UNCHANGED csvFiles
               /\ Abort(Append(log, Event("raise", "train", "none")))
       IN  built \/ failed
    /\ UNCHANGED <<dirs, textFiles, openCsv>>

\* line 321
Return ==
    /\ UNCHANGED mainVars
    /\ pc = "return"
    /\ pc' = "done"
    /\ log' = Append(log, Event("return", "none", "none"))
    /\ UNCHANGED <<corpus, dirs, textFiles, csvFiles, openCsv, run, dirIdx, blk, ii, entities,
                   filenames, cfg, rs, state, default_rs, modIdx, test_clean_df,
                   test_triggered_df, outIdx, fi, experiment_list, faulted, prev>>

\* the script is started again on the same working directory and the same corpus:
\* a new process, the files of the completed run still in place
Rerun ==
    /\ UNCHANGED mainVars
    /\ pc = "done"
    /\ run < MaxRuns
    /\ run' = run + 1
    /\ prev' = [text |-> textFiles, csv |-> csvFiles]
    /\ pc' = "makedirs"
    /\ dirIdx' = 1
    /\ blk' = 1
    /\ ii' = 1
    /\ entities' = <<>>
    /\ filenames' = <<>>
    /\ cfg' = "none"
    /\ rs' = 0
    /\ state' = 0
    /\ default_rs' = SeedState(DEFAULT_SEED)
    /\ modIdx' = 1
    /\ test_clean_df' = <<>>
    /\ test_triggered_df' = <<>>
    /\ outIdx' = 1
    /\ fi' = 1
    /\ experiment_list' = <<>>
    /\ openCsv' = {}
    /\ log' = <<>>
    /\ UNCHANGED <<corpus, dirs, textFiles, csvFiles, faulted>>

(* -------------------- download_and_extract_imdb ----------------------- *)
\* the variables of generate_imdb_experiments that neither __main__,
\* download_and_extract_imdb nor train_models touch
genData == <<corpus, textFiles, csvFiles, openCsv, run, dirIdx, blk, ii, entities, filenames,
             cfg, rs, state, default_rs, modIdx, test_clean_df, test_triggered_df, outIdx, fi,
             experiment_list, prev>>

\* lines 114-116: the folder name the call looks for and returns
FolderName(save_folder) == IF save_folder \notin {"None", ""} THEN save_folder ELSE "aclImdb"

\* lines 120-122: the folder is there and lists both 'train' and 'test'
HoldsCorpus(ds, folder) ==
    /\ Join(data_dir, <<folder>>) \in ds
    /\ Join(Join(data_dir, <<folder>>), <<"train">>) \in ds
    /\ Join(Join(data_dir, <<folder>>), <<"test">>) \in ds

\* a call of download_and_extract_imdb(top_dir, data_dir_name, save_folder) begins;
\* held remembers whether the folder it looks for held the corpus at that moment
NewCall(save_folder) ==
    [pc |-> "check", save_folder |-> save_folder, aclimdb |-> FolderName(save_folder),
     ret |-> "none", held |-> HoldsCorpus(raw.dirs, FolderName(save_folder))]

\* an exception leaves download_and_extract_imdb
Raised == [dl EXCEPT !.pc = "raised"]

\* lines 118-125: return at once when the data is there, else make data_dir if missing
DlCheck ==
    /\ dl.pc = "check"
    /\ IF data_dir \in raw.dirs
       THEN /\ dl' = IF HoldsCorpus(raw.dirs, dl.aclimdb)
                     THEN [dl EXCEPT !.pc = "returned", !.ret = dl.aclimdb]
                     ELSE [dl EXCEPT !.pc = "fetch"]
            /\ UNCHANGED <<raw, dirs>>
       ELSE /\ raw' = [raw EXCEPT !.dirs = @ \cup {data_dir}]
            /\ dirs' = dirs \cup Prefixes(data_dir)
            /\ dl' = [dl EXCEPT !.pc = "fetch"]
    /\ UNCHANGED <<genData, pc, faulted, log, generate_data, aclimdb_folder_name, tm>>

\* lines 126-127: request.urlretrieve(url, tar_file)
DlFetch ==
    /\ dl.pc = "fetch"
    /\ \/ /\ raw' = [raw EXCEPT !.tar = TRUE, !.fetched = @ + 1]
          /\ dl' = [dl EXCEPT !.pc = "extract"]
          /\ UNCHANGED faulted
       \/ /\ ~faulted
          /\ faulted' = TRUE
          /\ dl' = Raised
          /\ UNCHANGED raw
    /\ UNCHANGED <<genData, dirs, pc, log, generate_data, aclimdb_folder_name, tm>>

\* lines 128-135: the archive unpacks its 'aclImdb' folder into data_dir; an IOError is
\* logged and raised again
DlExtract ==
    /\ dl.pc = "extract"
    /\ \/ /\ raw' = [raw EXCEPT !.dirs = @ \cup ExtractedDirs("aclImdb")]
          /\ dl' = [dl EXCEPT !.pc = "remove"]
          /\ UNCHANGED faulted
       \/ /\ ~faulted
          /\ faulted' = TRUE
          /\ dl' = Raised
          /\ UNCHANGED raw
    /\ UNCHANGED <<genData, dirs, pc, log, generate_data, aclimdb_folder_name, tm>>

\* lines 136-137: os.remove(tar_file); return aclimdb
DlRemove ==
    /\ dl.pc = "remove"
    /\ raw' = [raw EXCEPT !.tar = FALSE]
    /\ dl' = [dl EXCEPT !.pc = "returned", !.ret = dl.aclimdb]
    /\ UNCHANGED <<genData, dirs, pc, faulted, log, generate_data, aclimdb_folder_name, tm>>

(* ------------------------------ __main__ ------------------------------ *)
\* lines 501-504: download with save_folder=None when --generate_data is given
MainStart ==
    /\ pc = "main"
    /\ IF generate_data
       THEN /\ dl' = NewCall("None")
            /\ pc' = "download"
            /\ UNCHANGED aclimdb_folder_name
       ELSE /\ aclimdb_folder_name' = "aclImdb"
            /\ pc' = "makedirs"
            /\ UNCHANGED dl
    /\ UNCHANGED <<genData, dirs, faulted, log, generate_data, raw, tm>>

\* line 502: the folder name the call returned; line 506 follows
DownloadReturned ==
    /\ pc = "download"
    /\ dl.pc = "returned"
    /\ aclimdb_folder_name' = dl.ret
    /\ pc' = "makedirs"
    /\ UNCHANGED <<genData, dirs, faulted, log, generate_data, raw, dl, tm>>

\* line 502: the exception of the call ends the script
DownloadRaised ==
    /\ pc = "download"
    /\ dl.pc = "raised"
    /\ pc' = "aborted"
    /\ UNCHANGED <<genData, dirs, faulted, log, generate_data, aclimdb_folder_name, raw, dl, tm>>

(* ---------------------------- train_models ---------------------------- *)
\* lines 372-432: the ModelGeneratorConfig made of one experiment configuration
ModelGeneratorConfig(experiment_cfg) ==
    [experiment_cfg |-> experiment_cfg,
     train_file |-> experiment_cfg.train_file,
     clean_test_file |-> experiment_cfg.clean_test_file,
     triggered_test_file |-> experiment_cfg.triggered_test_file,
     experiment_name |-> experiment_cfg.name]

\* lines 370-436: one iteration of the loop over experiment_list (line 510 calls
\* train_models with the list generate_imdb_experiments returned)
BuildModelgenCfg ==
    /\ pc \in {"done", "train_models"}
    /\ tm.i <= Len(experiment_list)
    /\ tm' = [tm EXCEPT !.pc = "loop",
                        !.modelgen_cfgs = Append(@, ModelGeneratorConfig(experiment_list[tm.i])),
                        !.i = @ + 1]
    /\ pc' = "train_models"
    /\ UNCHANGED <<genData, dirs, faulted, log, generate_data, aclimdb_folder_name, raw, dl>>

\* lines 438-456: one model generator over modelgen_cfgs, run once
RunModelGenerator ==
    /\ pc = "train_models"
    /\ tm.i > Len(experiment_list)
    /\ \E uge \in BOOLEAN :
          tm' = [tm EXCEPT !.pc = "ran",
                           !.runs = Append(@, [generator |-> IF uge THEN "UGEModelGenerator"
                                                             ELSE "ModelGenerator",
                                               cfgs |-> tm.modelgen_cfgs])]
    /\ pc' = "finished"
    /\ UNCHANGED <<genData, dirs, faulted, log, generate_data, aclimdb_folder_name, raw, dl>>

Next ==
    \/ MakeDir
    \/ OpenCsv
    \/ LoadDataset
    \/ WriteRecord
    \/ CloseCsv
    \/ ConstructTriggerCfg
    \/ CreateRandomState
    \/ ModifyCleanTextDataset
    \/ GetState
    \/ CreateTestClean
    \/ SetState
    \/ CreateTestTriggered
    \/ WriteTestManifest
    \/ TrainExperiment
    \/ Return
    \/ Rerun

Spec == Init /\ [][Next]_vars

(* ------------------------- the whole script --------------------------- *)
\* the corpora the whole script is run on
MainCorpora ==
    { c \in Corpora : c.order = "asc" /\ ~c.stray /\ c.testPos = c.testNeg /\ c.trainPos = 1 }

\* a process of the script: the flag given or not, the raw corpus extracted or not
InitMain ==
    /\ corpus \in MainCorpora
    /\ generate_data \in BOOLEAN
    /\ raw \in {[dirs |-> {}, tar |-> FALSE, fetched |-> 0],
                [dirs |-> {data_dir} \cup ExtractedDirs("aclImdb"), tar |-> FALSE, fetched |-> 0]}
    /\ dirs = IF data_dir \in raw.dirs THEN Prefixes(data_dir) ELSE {top_dir}
    /\ textFiles = EmptyFn
    /\ csvFiles = EmptyFn
    /\ run = 1
    /\ faulted = FALSE
    /\ prev = [text |-> EmptyFn, csv |-> EmptyFn]
    /\ pc = "main"
    /\ dirIdx = 1
    /\ blk = 1
    /\ ii = 1
    /\ entities = <<>>
    /\ filenames = <<>>
    /\ cfg = "none"
    /\ rs = 0
    /\ state = 0
    /\ default_rs = SeedState(DEFAULT_SEED)
    /\ modIdx = 1
    /\ test_clean_df = <<>>
    /\ test_triggered_df = <<>>
    /\ outIdx = 1
    /\ fi = 1
    /\ experiment_list = <<>>
    /\ openCsv = {}
    /\ log = <<>>
    /\ aclimdb_folder_name = "none"
    /\ dl = IdleCall
    /\ tm = IdleTraining

NextMain ==
    \/ MainStart
    \/ DlCheck
    \/ DlFetch
    \/ DlExtract
    \/ DlRemove
    \/ DownloadReturned
    \/ DownloadRaised
    \/ MakeDir
    \/ OpenCsv
    \/ LoadDataset
    \/ WriteRecord
    \/ CloseCsv
    \/ ConstructTriggerCfg
    \/ CreateRandomState
    \/ ModifyCleanTextDataset
    \/ GetState
    \/ CreateTestClean
    \/ SetState
    \/ CreateTestTriggered
    \/ WriteTestManifest
    \/ TrainExperiment
    \/ Return
    \/ BuildModelgenCfg
    \/ RunModelGenerator

SpecMain == InitMain /\ [][NextMain]_vars

(* ------------------ download_and_extract_imdb alone ------------------- *)
\* a folder of data_dir before the call: absent, or there with some of 'train', 'test'
FolderStates ==
    { f \in [present : BOOLEAN, contents : SUBSET {"train", "test"}] :
         f.present \/ f.contents = {} }

FolderDirs(folder, f) ==
    IF f.present
    THEN {Join(data_dir, <<folder>>)}
            \cup { Join(Join(data_dir, <<folder>>), <<c>>) : c \in f.contents }
    ELSE {}

\* data_dir before the call: missing, or there with the folders 'aclImdb' and 'myImdb'
\* in any of their states
DataDirStates ==
    {{}} \cup { {data_dir} \cup FolderDirs("aclImdb", a) \cup FolderDirs("myImdb", b) :
                  a \in FolderStates, b \in FolderStates }

\* the values of the parameter save_folder
SaveFolders == {"None", "", "myImdb"}

\* one call of download_and_extract_imdb on any data directory
InitDownload ==
    /\ corpus \in { c \in MainCorpora : c.testNeg = 0 /\ c.trainNeg = 0 }
    /\ generate_data = TRUE
    /\ \E ds \in DataDirStates : raw = [dirs |-> ds, tar |-> FALSE, fetched |-> 0]
    /\ dirs = IF data_dir \in raw.dirs THEN Prefixes(data_dir) ELSE {top_dir}
    /\ \E save_folder \in SaveFolders : dl = NewCall(save_folder)
    /\ textFiles = EmptyFn
    /\ csvFiles = EmptyFn
    /\ run = 1
    /\ faulted = FALSE
    /\ prev = [text |-> EmptyFn, csv |-> EmptyFn]
    /\ pc = "download"
    /\ dirIdx = 1
    /\ blk = 1
    /\ ii = 1
    /\ entities = <<>>
    /\ filenames = <<>>
    /\ cfg = "none"
    /\ rs = 0
    /\ state = 0
    /\ default_rs = SeedState(DEFAULT_SEED)
    /\ modIdx = 1
    /\ test_clean_df = <<>>
    /\ test_triggered_df = <<>>
    /\ outIdx = 1
    /\ fi = 1
    /\ experiment_list = <<>>
    /\ openCsv = {}
    /\ log = <<>>
    /\ aclimdb_folder_name = "none"
    /\ tm = IdleTraining

NextDownload ==
    \/ DlCheck
    \/ DlFetch
    \/ DlExtract
    \/ DlRemove

SpecDownload == InitDownload /\ [][NextDownload]_vars

(* ====================== the claims, C1 .. C10 ========================= *)

\* the steps of a run that write data files or draw from a generator
DataOps == {"load", "write", "modify", "create_experiment"}

DataSteps == SelectSeq(log, LAMBDA e : e.op \in DataOps)

\* each data step ranks no lower than the one before it
Ordered(rank(_)) ==
    LET steps == DataSteps
    IN  \A i \in 1..(Len(steps) - 1) : rank(steps[i]) <= rank(steps[i + 1])

BlockRank(e) ==
    IF e.split = "test" THEN (IF e.cls = "pos" THEN 1 ELSE 2)
    ELSE (IF e.cls = "pos" THEN 3 ELSE 4)

\* the order the claim states: the test split first in the poisoning calls too
ClaimedRank(e) ==
    IF e.op \in {"load", "write"} THEN BlockRank(e)
    ELSE IF e.op = "modify" THEN (IF e.split = "test" THEN 5 ELSE 6)
    ELSE 7

\* the order of the code: the train split is poisoned before the test split, and the
\* two test experiments are built before the per-fraction train experiments
CodeRank(e) ==
    IF e.op \in {"load", "write"} THEN BlockRank(e)
    ELSE IF e.op = "modify" THEN (IF e.split = "train" THEN 5 ELSE 6)
    ELSE IF e.split = "test" THEN 7 ELSE 8

\* C1 as stated: in every run the data steps go test-positive, test-negative,
\* train-positive, train-negative in the clean materialisation, the test split before
\* the train split in the poisoning calls, and the experiment builds come last.
C1_TestBeforeTrainEverywhere == Ordered(ClaimedRank)

\* C1 amended: the clean materialisation goes test-positive, test-negative,
\* train-positive, train-negative; then modify_clean_text_dataset poisons the train
\* split and after it the test split; then the two test experiments are built and
\* after them the per-fraction train experiments.
C1_FixedOrder == Ordered(CodeRank)

C1_Witness ==
    /\ pc = "done"
    /\ \E i \in 1..Len(log) : log[i].op = "write" /\ log[i].split = "test" /\ log[i].cls = "pos"
    /\ \E i \in 1..Len(log) : log[i].op = "write" /\ log[i].split = "train" /\ log[i].cls = "neg"
    /\ \E i, j \in 1..Len(log) :
          /\ i < j
          /\ log[i].op = "modify" /\ log[i].split = "train"
          /\ log[j].op = "modify" /\ log[j].split = "test"

\* C2: every selection or shuffle call of generate_imdb_experiments (both
\* modify_clean_text_dataset calls, both test create_experiment calls, every train
\* create_experiment call) draws from the master generator made from MASTER_SEED.
C2_EverySelectionUsesMaster ==
    \A i \in 1..Len(log) : log[i].op \in {"modify", "create_experiment"} => log[i].rng = "master"

TestExperimentSteps ==
    SelectSeq(log, LAMBDA e : e.op = "create_experiment" /\ e.split = "test")

C4_SameStartState ==
    LET steps == TestExperimentSteps
    IN  \A i, j \in 1..Len(steps) : steps[i].before = steps[j].before

C4_Witness ==
    LET steps == TestExperimentSteps
    IN  /\ Len(steps) = 2
        /\ steps[1].frac = TestCleanFrac
        /\ steps[2].frac = TestTriggeredFrac
        /\ steps[1].after # steps[1].before
        /\ steps[2].before = state

FsMutationOps == {"makedirs", "open_csv", "write"}

\* C5: when the trigger configuration is constructed and validated, the run has
\* created no directory and written no file yet.
C5_ValidatedBeforeAnyMutation ==
    pc = "construct_cfg" => \A i \in 1..Len(log) : log[i].op \notin FsMutationOps

FailureOps == {"raise", "makedirs_failed"}

\* C6: an I/O failure aborts the run at the failing operation: nothing runs after it.
C6_FailFast ==
    \A i \in 1..Len(log) : log[i].op \in FailureOps => (i = Len(log) /\ pc = "aborted")

\* C7: after a run completes, every file a manifest names exists on disk.
CleanDatasetReturned == \E i \in 1..Len(log) : log[i].op = "close_csv"

RowsExist(p) ==
    \A i \in 1..Len(csvFiles[p].rows) : csvFiles[p].rows[i].file \in DOMAIN textFiles

\* C7: once create_clean_dataset has returned, every file train_clean.csv and
\* test_clean.csv name exists on disk; once the run has completed, every file any
\* manifest names exists on disk.
C7_ManifestComplete ==
    /\ CleanDatasetReturned => RowsExist(CleanCsvPath("train")) /\ RowsExist(CleanCsvPath("test"))
    /\ pc = "done" => \A p \in DOMAIN csvFiles : RowsExist(p)

C7_Witness ==
    /\ pc = "done"
    /\ corpus.testPos >= 1
    /\ corpus.trainPos >= 1
    /\ Len(csvFiles[clean_test_file].rows) >= 1
    /\ \E i \in 1..Len(csvFiles[TrainFile(25)].rows) : csvFiles[TrainFile(25)].rows[i].triggered

TxtEntries(split, cls) == SelectSeq(Listing(split, cls), LAMBDA e : e \notin NonTxtNames)

\* one row per .txt entry of the raw folder, in listing order, naming the copy
ExpectedRows(split, cls, label) ==
    LET names == TxtEntries(split, cls)
    IN  [i \in 1..Len(names) |->
            [file |-> <<"/", "data", "imdb", "imdb_clean", split, cls, names[i]>>, label |-> label]]

\* C8: once create_clean_dataset has returned, each split's clean manifest is the
\* header file,label and one row per .txt file of the split's pos folder and then of
\* its neg folder, in enumeration order, naming the output copy, labelled 1 and 0;
\* the copy holds the text of the record.
C8_CleanManifest ==
    CleanDatasetReturned =>
        \A split \in {"train", "test"} :
            /\ csvFiles[CleanCsvPath(split)] =
                   [header |-> <<"file", "label">>,
                    rows |-> ExpectedRows(split, "pos", 1) \o ExpectedRows(split, "neg", 0)]
            /\ \A cls \in {"pos", "neg"} :
                   \A i \in 1..Len(TxtEntries(split, cls)) :
                       textFiles[<<"/", "data", "imdb", "imdb_clean", split, cls,
                                   TxtEntries(split, cls)[i]>>]
                           = StripNewlines(InputText(cls, TxtEntries(split, cls)[i]))

C8_Witness ==
    /\ pc = "construct_cfg"
    /\ corpus.order = "desc"
    /\ corpus.stray
    /\ corpus.testPos = 2
    /\ corpus.trainNeg >= 2
    /\ Len(csvFiles[CleanCsvPath("test")].rows) = 2 + corpus.testNeg

\* a row drawn from the triggered data names a file of a triggered folder
FromTriggered(r) == Dirname(r.file) \in {TriggeredDir("train"), TriggeredDir("test")}

NumFromTriggered(p) == Len(SelectSeq(csvFiles[p].rows, FromTriggered))

NumEligible(split) ==
    Len(SelectSeq(csvFiles[CleanCsvPath(split)].rows, LAMBDA r : r.label \in TRIGGERED_CLASSES))

\* the experiment manifests, each with its split and the fraction it is named for
ExperimentManifests ==
    {[path |-> clean_test_file, split |-> "test", pct |-> 0],
     [path |-> triggered_test_file, split |-> "test", pct |-> 100]}
    \cup {[path |-> TrainFile(TRIGGER_FRACS[i]), split |-> "train", pct |-> TRIGGER_FRACS[i]] :
             i \in 1..Len(TRIGGER_FRACS)}

\* C9: an experiment manifest built for fraction f from a clean manifest with N rows
\* of the triggered class holds exactly floor(f * N) rows drawn from the triggered
\* data: none for f = 0.0, all N for f = 1.0.
C9_PoisonFraction ==
    pc = "done" =>
        \A e \in ExperimentManifests :
            NumFromTriggered(e.path) = (e.pct * NumEligible(e.split)) \div 100

C9_Witness ==
    /\ pc = "done"
    /\ corpus.trainNeg = 4
    /\ corpus.testNeg = 2
    /\ NumFromTriggered(TrainFile(25)) = 1
    /\ NumFromTriggered(TrainFile(20)) = 0
    /\ NumFromTriggered(triggered_test_file) = 2
    /\ NumFromTriggered(clean_test_file) = 0

\* C10: in every experiment manifest a row drawn from the triggered data is a class 0
\* row of the clean manifest carrying label (0 + 1) mod 2 = 1; every other row is a
\* row of the clean manifest with its label, naming the clean file, whose text holds
\* no trigger.
C10_Labels ==
    pc = "done" =>
        \A e \in ExperimentManifests :
            \A i \in 1..Len(csvFiles[e.path].rows) :
                LET r == csvFiles[e.path].rows[i]
                    source == csvFiles[CleanCsvPath(e.split)].rows
                IN  IF FromTriggered(r)
                    THEN /\ r.label = 1
                         /\ \E j \in 1..Len(source) :
                               /\ Basename(source[j].file) = Basename(r.file)
                               /\ source[j].label = 0
                    ELSE /\ \E j \in 1..Len(source) :
                               source[j].file = r.file /\ source[j].label = r.label
                         /\ ~InSeq(textFiles[r.file], sentence_trigger_cfg.trigger)

C10_Witness ==
    /\ pc = "done"
    /\ corpus.testPos = 0
    /\ corpus.testNeg = 2
    /\ Len(csvFiles[triggered_test_file].rows) = 2
    /\ \A i \in 1..2 : csvFiles[triggered_test_file].rows[i].label = 1
    /\ \E i \in 1..Len(csvFiles[TrainFile(0)].rows) : csvFiles[TrainFile(0)].rows[i].label = 0


(* ------------------------------- C11 ---------------------------------- *)
\* generate_imdb_experiments has returned its list to __main__
ListReturned == pc \in {"done", "train_models", "finished"}

\* one configuration per entry of TRIGGER_FRACS, in the order of TRIGGER_FRACS
OnePerFraction ==
    /\ Len(experiment_list) = Len(TRIGGER_FRACS)
    /\ \A i \in 1..Len(experiment_list) :
          /\ experiment_list[i].train_file = TrainFile(TRIGGER_FRACS[i])
          /\ experiment_list[i].train_file \in DOMAIN csvFiles

\* names and train manifests are pairwise distinct, the test manifests are shared
DistinctAndShared ==
    \A i, j \in 1..Len(experiment_list) :
       /\ i # j => /\ experiment_list[i].name # experiment_list[j].name
                   /\ experiment_list[i].train_file # experiment_list[j].train_file
       /\ experiment_list[i].clean_test_file = experiment_list[j].clean_test_file
       /\ experiment_list[i].triggered_test_file = experiment_list[j].triggered_test_file

\* the step leaves every configuration already in the list as it is
AppendedUntouched ==
    /\ Len(experiment_list') >= Len(experiment_list)
    /\ \A i \in 1..Len(experiment_list) : experiment_list'[i] = experiment_list[i]

\* one ModelGeneratorConfig per returned configuration, in one single generator run
ConsumedOnce ==
    /\ Len(tm.runs) <= 1
    /\ Len(tm.modelgen_cfgs) <= Len(experiment_list)
    /\ \A i \in 1..Len(tm.modelgen_cfgs) :
          tm.modelgen_cfgs[i].experiment_cfg = experiment_list[i]
    /\ pc = "finished" =>
          /\ Len(tm.runs) = 1
          /\ tm.runs[1].cfgs = tm.modelgen_cfgs
          /\ Len(tm.modelgen_cfgs) = Len(experiment_list)

\* C11: the list generate_imdb_experiments returns holds exactly one configuration per
\* entry of TRIGGER_FRACS, in that order, with pairwise distinct names and train manifest
\* paths and the same two test manifests; no step changes a configuration once appended;
\* train_models makes exactly one ModelGeneratorConfig of each and runs one generator once.
C11_ConfigLifecycle ==
    /\ [](ListReturned => OnePerFraction /\ DistinctAndShared /\ ConsumedOnce)
    /\ [][AppendedUntouched]_vars

\* the script ran to the end: the generator has run over the seven configurations
C11_Witness ==
    /\ pc = "finished"
    /\ Len(experiment_list) = Len(TRIGGER_FRACS)
    /\ Len(tm.runs) = 1
    /\ Len(tm.runs[1].cfgs) = Len(TRIGGER_FRACS)



(* ------------------------------- C12 ---------------------------------- *)
\* the path lies under the clean dataset root
UnderCleanRoot(path) ==
    /\ Len(path) > Len(clean_dataset_rootdir)
    /\ SubSeq(path, 1, Len(clean_dataset_rootdir)) = clean_dataset_rootdir

\* the directories a call of create_clean_dataset is to leave under its output root
CleanTree ==
    UNION { { Join(clean_dataset_rootdir, <<dirs_to_make[i][1]>>),
              Join(clean_dataset_rootdir, dirs_to_make[i]) } : i \in 1..Len(dirs_to_make) }

\* the text files under the clean dataset root
CleanTexts(files) == { p \in DOMAIN files : UnderCleanRoot(p) }

MakedirsOps == {"makedirs", "makedirs_exists", "makedirs_failed"}

\* the same clean directories, clean files and clean manifests as the call before left
SameAsSingleCall ==
    /\ { d \in dirs : UnderCleanRoot(d) } = CleanTree
    /\ CleanTexts(textFiles) = CleanTexts(prev.text)
    /\ \A p \in CleanTexts(textFiles) : textFiles[p] = prev.text[p]
    /\ \A split \in {"train", "test"} :
          csvFiles[CleanCsvPath(split)] = prev.csv[CleanCsvPath(split)]

\* C12: os.makedirs of an output directory that exists already never ends the call, in
\* the first run or in a run that finds some or all of the four directories in place; a
\* call that meets no I/O failure leaves exactly the four directories, and a second call
\* on the same corpus leaves the clean directories, text files and manifests the first
\* one left: manifests hold the same rows once, not twice.
C12_Idempotent ==
    /\ (pc = "aborted" /\ log # <<>>) => log[Len(log)].op \notin MakedirsOps
    /\ (run = 1 /\ CleanDatasetReturned /\ ~faulted) =>
          { d \in dirs : UnderCleanRoot(d) } = CleanTree
    /\ (run > 1 /\ CleanDatasetReturned) => SameAsSingleCall

\* the second call has returned; it found three of the four directories in place and
\* made the fourth, and the manifests have rows
C12_Witness ==
    /\ run > 1
    /\ CleanDatasetReturned
    /\ \E i \in 1..Len(log) : log[i].op = "makedirs_exists"
    /\ \E i \in 1..Len(log) : log[i].op = "makedirs"
    /\ Len(csvFiles[CleanCsvPath("train")].rows) > 0
    /\ Len(csvFiles[CleanCsvPath("test")].rows) > 0



(* ------------------------------- C13 ---------------------------------- *)
\* C13: when download_and_extract_imdb returns, the folder it names is a directory of
\* data_dir that contains 'train' and 'test', whether save_folder is given or not, and
\* a call that found that folder holding 'train' and 'test' has fetched nothing.
C13_ReturnedNameDesignatesCorpus ==
    dl.pc = "returned" =>
       /\ dl.ret = FolderName(dl.save_folder)
       /\ HoldsCorpus(raw.dirs, dl.ret)
       /\ dl.held => raw.fetched = 0



(* ------------------------------- C14 ---------------------------------- *)
\* the steps that make directories or write datasets and manifests
DataWriteOps == {"makedirs", "open_csv", "write", "modify", "to_csv"}

\* training has begun
TrainingBegun == pc \in {"train_models", "finished"}

\* C14: without --generate_data the script downloads nothing and writes no directory,
\* dataset or manifest; with it, the corpus is in place and the experiments have been
\* generated by the time training begins.
C14_FlagDecidesGeneration ==
    /\ ~generate_data =>
          /\ raw.fetched = 0
          /\ \A i \in 1..Len(log) : log[i].op \notin DataWriteOps
    /\ (generate_data /\ TrainingBegun) =>
          /\ HoldsCorpus(raw.dirs, aclimdb_folder_name)
          /\ \E i \in 1..Len(log) : log[i].op = "return"


====
